---- MODULE Spec2Model ----
(***************************************************************************)
(* Model of the SimonGame component (src/unnamed/part_000).                *)
(*                                                                         *)
(* The component is a React function component: its state is the set of    *)
(* useState cells plus the refs (audio nodes, playQueueRef) plus the       *)
(* browser's pending window.setTimeout callbacks.  Every event handler or  *)
(* timer callback runs to completion (JavaScript is single threaded), the  *)
(* promise continuations it releases run as microtasks right after it, and *)
(* React commits the batched setState calls before the next task, so each  *)
(* handler together with its microtasks is one atomic action.              *)
(*                                                                         *)
(* Time is kept as the remaining delay, in milliseconds, of every pending  *)
(* timer.  A timer fires when its remaining delay is 0; timers that are    *)
(* due at the same instant fire in creation order.  A playback pass        *)
(* (playSequence) is suspended on exactly one flash timer, which carries   *)
(* the steps and the index of the pass.  `events` counts the user events   *)
(* that reached the game logic; it bounds a run and is no program state.   *)
(***************************************************************************)
EXTENDS Integers, Sequences, FiniteSets, TLC

VARIABLES sequence, level, bestLevel, playerIndex, isPlayingSequence,
          activeTile, status, strictMode, hasInteracted, lastErrorLevel,
          audio, timers, events, accuracy

vars == <<sequence, level, bestLevel, playerIndex, isPlayingSequence,
          activeTile, status, strictMode, hasInteracted, lastErrorLevel,
          audio, timers, events, accuracy>>

(* ------------------------------ bounds --------------------------------- *)

\* most user events that reach the game logic (Play/Restart clicks, accepted
\* tile presses) in one run
MaxEvents == 3
\* oscillators are counted up to this number
MaxOsc == 2
\* user events are placed on timer deadlines or QuantumTenths/10 s after an event
QuantumTenths == 2
\* randomTile() draws from 0 .. MaxDrawn (presses range over all four tiles)
MaxDrawn == 1
\* deepest round the tempo and accuracy functions are exercised at
MaxFnLevel == 12

(* --------------------------- program constants ------------------------- *)

NumTiles == 4
Tiles == 0 .. (NumTiles - 1)
\* Math.floor(Math.random() * 4), within the drawn range
randomTile == {t \in Tiles : t <= MaxDrawn}
\* null (activeTile, lastErrorLevel) and undefined (sequence[i] out of range)
Null == 0 - 1

StartPause == 450
NextPause == 700
MismatchPause == 900
InputHold == 200
TempoBase == 680
TempoStep == 40
TempoFloor == 260
HoldFloor == 180
GapFloor == 80

Max(a, b) == IF a >= b THEN a ELSE b
Min(a, b) == IF a <= b THEN a ELSE b

\* getTempo with a fault: the 260 ms floor is missing
getTempoNoFloor(round) == TempoBase - round * TempoStep

getTempo(round) == Max(TempoBase - round * TempoStep, TempoFloor)
\* Math.max(180, tempo)
holdTime(tempo) == Max(HoldFloor, tempo)
\* Math.max(80, tempo * 0.25); every tempo is a multiple of 20, so tempo / 4
\* is a whole number of milliseconds
gapTime(tempo) == Max(GapFloor, tempo \div 4)

(* ------------------------------ timers --------------------------------- *)
\* kind: "play"         setTimeout(() => playSequence(steps), ...)
\*       "restart"      setTimeout(() => startGame(), 900)
\*       "inputRelease" the 200 ms release timer of handlePlayerInput
\*       "flashRelease" the hold timer of flashTile, tile steps[idx] is lit
\*       "settle"       setTimeout(resolve, gap) of flashTile
\* rej:   playQueueRef.current.reject is the reject closure of this flash
\* live:  the promise of this flash is not resolved yet
Timer(kind, rem, steps, idx, rej, live) ==
    [kind |-> kind, rem |-> rem, steps |-> steps, idx |-> idx,
     rej |-> rej, live |-> live]

RemoveAt(s, i) == SubSeq(s, 1, i - 1) \o SubSeq(s, i + 1, Len(s))

ClearRej(ts) == [k \in DOMAIN ts |-> [ts[k] EXCEPT !.rej = FALSE]]

(* ------------------------- the component state ------------------------- *)

State ==
    [sequence |-> sequence, level |-> level, bestLevel |-> bestLevel,
     playerIndex |-> playerIndex, isPlayingSequence |-> isPlayingSequence,
     activeTile |-> activeTile, status |-> status, strictMode |-> strictMode,
     hasInteracted |-> hasInteracted, lastErrorLevel |-> lastErrorLevel,
     audio |-> audio, timers |-> timers]

\* Math.round(n / d) for n >= 0, d > 0: the nearest integer, halves upwards
Round(n, d) == (2 * n + d) \div (2 * d)

\* Math.min(100, Math.round(((level - 1) / Math.max(lastErrorLevel, 1)) * 100))
\* accuracyRatio with a fault: Math.min(100, ...) is missing
accuracyRatioNoCap(lvl, err) == Round((lvl - 1) * 100, Max(err, 1))

accuracyRatio(lvl, err) == Min(100, Round((lvl - 1) * 100, Max(err, 1)))

\* const accuracy = useMemo(..., [lastErrorLevel, level]); Null when absent
accuracyMemo(lvl, err) ==
    IF lvl <= 1 \/ err = Null THEN Null ELSE accuracyRatio(lvl, err)

Commit(st) ==
    /\ accuracy' = accuracyMemo(st.level, st.lastErrorLevel)
    /\ sequence' = st.sequence
    /\ level' = st.level
    /\ bestLevel' = st.bestLevel
    /\ playerIndex' = st.playerIndex
    /\ isPlayingSequence' = st.isPlayingSequence
    /\ activeTile' = st.activeTile
    /\ status' = st.status
    /\ strictMode' = st.strictMode
    /\ hasInteracted' = st.hasInteracted
    /\ lastErrorLevel' = st.lastErrorLevel
    /\ audio' = st.audio
    /\ timers' = st.timers

(* ------------------------------- audio --------------------------------- *)
\* audio.available   the browser has an AudioContext constructor
\* audio.ctx         audioCtxRef / gainRef are set (ensureAudio has succeeded)
\* audio.oscillators started oscillators still connected to the gain node
\* audio.sounding    the gain envelope is ramped up (a tone is audible)

stopTone(a) ==
    IF ~a.ctx THEN a ELSE [a EXCEPT !.sounding = FALSE]

playTone(a) ==
    IF ~a.available THEN a
    ELSE [stopTone([a EXCEPT !.ctx = TRUE]) EXCEPT
             !.oscillators = Min(@ + 1, MaxOsc), !.sounding = TRUE]

(* ------------------------------ playback ------------------------------- *)

\* flashTile(steps[idx], tempo): the promise executor, up to the first timer
flashTile(st, steps, idx) ==
    [st EXCEPT
        !.activeTile = steps[idx],
        !.audio = playTone(@),
        !.timers = Append(ClearRej(@),
                          Timer("flashRelease", holdTime(getTempo(Len(steps))),
                                steps, idx, TRUE, TRUE))]

\* the release callback of flashTile: clear the tile, start the settle gap
flashRelease(st, i) ==
    LET t == st.timers[i] IN
    [st EXCEPT
        !.activeTile = Null,
        !.audio = stopTone(@),
        !.timers = Append(RemoveAt(@, i),
                          [t EXCEPT !.kind = "settle",
                                    !.rem = gapTime(getTempo(Len(t.steps)))])]

\* playSequenceEnd with a fault: setIsPlayingSequence(false) is missing
playSequenceEndKeepsFlag(st) ==
    [st EXCEPT
        !.status = "Your turn",
        !.playerIndex = 0,
        !.activeTile = Null,
        !.audio = stopTone(@)]

\* playSequence after its loop: the last two statements of try, then finally
playSequenceEnd(st) ==
    [st EXCEPT
        !.status = "Your turn",
        !.playerIndex = 0,
        !.isPlayingSequence = FALSE,
        !.activeTile = Null,
        !.audio = stopTone(@)]

\* playSequence resumed after `await flashTile(steps[idx])` has resolved
playSequenceResume(st, steps, idx) ==
    IF idx < Len(steps)
    THEN flashTile(st, steps, idx + 1)
    ELSE playSequenceEnd(st)

watchStatus(steps) ==
    IF Len(steps) = 1 THEN "Memorize the pattern"
    ELSE "Level " \o ToString(Len(steps)) \o ": watch"

\* playSequence(steps) up to its first await (steps is never empty here)
playSequence(st, steps) ==
    flashTile([st EXCEPT !.isPlayingSequence = TRUE,
                         !.status = watchStatus(steps)],
              steps, 1)

(* --------------------------- game operations --------------------------- *)

\* resetGameState with a fault: setLastErrorLevel(null) is missing
resetGameStateKeepsError(st) ==
    [st EXCEPT
        !.sequence = <<>>,
        !.level = 0,
        !.playerIndex = 0,
        !.isPlayingSequence = FALSE,
        !.activeTile = Null,
        !.status = "Tap play to begin"]

resetGameState(st) ==
    [st EXCEPT
        !.sequence = <<>>,
        !.level = 0,
        !.playerIndex = 0,
        !.isPlayingSequence = FALSE,
        !.activeTile = Null,
        !.status = "Tap play to begin",
        !.lastErrorLevel = Null]

\* levelSyncEffect with a fault: setLevel(sequence.length - 1)
levelSyncEffectOffByOne(st) ==
    IF Len(st.sequence) = 0 THEN st
    ELSE [st EXCEPT !.level = Len(st.sequence) - 1]

\* useEffect(..., [sequence]): runs after a commit that replaced sequence
levelSyncEffect(st) ==
    IF Len(st.sequence) = 0 THEN st
    ELSE [st EXCEPT !.level = Len(st.sequence)]

\* extendNext with a fault: [randomTile(), ...current]
extendNextPrepend(current, tile) == <<tile>> \o current

\* [...current, randomTile()]
extendNext(current, tile) == Append(current, tile)

\* bestOf with a fault: setBestLevel(n)
bestOfNoMax(prev, n) == n

\* setBestLevel((prev) => Math.max(prev, n))
bestOf(prev, n) == Max(prev, n)

extendSequence(st, current, tile) ==
    LET next == extendNext(current, tile) IN
    levelSyncEffect(
        [st EXCEPT
            !.sequence = next,
            !.level = Len(next),
            !.bestLevel = bestOf(@, Len(next)),
            !.timers = Append(@, Timer("play", NextPause, next, 0,
                                       FALSE, TRUE))])

\* index of the flash playQueueRef.current.reject belongs to, 0 if that flash
\* has resolved already or no flash was ever started
RejectTarget(ts) ==
    IF \E k \in DOMAIN ts : ts[k].rej /\ ts[k].live
    THEN CHOOSE k \in DOMAIN ts : ts[k].rej /\ ts[k].live
    ELSE 0

\* playQueueRef.current.reject?.(): clearTimeout(release); resolve()
\* (clearTimeout of a release timer that has fired already does nothing, and
\* the settle timer of the flash stays pending with nothing left to resolve)
rejectTimers(ts) ==
    LET r == RejectTarget(ts) IN
    IF r = 0 THEN ts
    ELSE IF ts[r].kind = "flashRelease" THEN RemoveAt(ts, r)
    ELSE [ts EXCEPT ![r].live = FALSE, ![r].rej = FALSE]

startGame(st, tile) ==
    LET old == st.timers
        r == RejectTarget(old)
        initial == <<tile>>
        s1 == resetGameState([st EXCEPT !.hasInteracted = TRUE,
                                        !.timers = rejectTimers(old)])
        s2 == levelSyncEffect(
                [s1 EXCEPT
                    !.sequence = initial,
                    !.level = 1,
                    !.bestLevel = bestOf(@, 1),
                    !.status = "Memorize the pattern",
                    !.timers = Append(@, Timer("play", StartPause, initial, 0,
                                               FALSE, TRUE))])
    IN  \* the pass released by reject() resumes in a microtask
        IF r = 0 THEN s2
        ELSE playSequenceResume(s2, old[r].steps, old[r].idx)

\* inputIgnored with a fault: if (!sequence.length) return;
inputIgnoredNoPlaying(st) == Len(st.sequence) = 0

\* if (!sequence.length || isPlayingSequence) return;
inputIgnored(st) == Len(st.sequence) = 0 \/ st.isPlayingSequence

\* sequence[playerIndex] (undefined past the end)
expectedTile(st) ==
    IF st.playerIndex < Len(st.sequence)
    THEN st.sequence[st.playerIndex + 1]
    ELSE Null

\* lines 248-258: feedback for an accepted press, release timer pending
inputFeedback(st, tile) ==
    [st EXCEPT
        !.hasInteracted = TRUE,
        !.activeTile = tile,
        !.audio = playTone(@),
        !.timers = Append(@, Timer("inputRelease", InputHold, <<>>, 0,
                                   FALSE, TRUE))]

\* window.clearTimeout(release): the release timer is the newest timer
clearRelease(st) == [st EXCEPT !.timers = SubSeq(@, 1, Len(@) - 1)]

inputRoundComplete(st, rnd) ==
    extendSequence([clearRelease(st) EXCEPT !.status = "Great! Next round"],
                   st.sequence, rnd)

\* inputAdvance with a fault: setPlayerIndex(nextIndex + 1)
inputAdvanceSkips(st) ==
    [st EXCEPT
        !.playerIndex = @ + 2,
        !.status = "Good! " \o ToString(Len(st.sequence) - (st.playerIndex + 1))
                   \o " to go"]

inputAdvance(st) ==
    [st EXCEPT
        !.playerIndex = @ + 1,
        !.status = "Good! " \o ToString(Len(st.sequence) - (st.playerIndex + 1))
                   \o " to go"]

\* inputMismatch with a fault: the non-strict branch steps playerIndex back
\* by one instead of setting it to 0
inputMismatchRewinds(st) ==
    LET s1 == [clearRelease(st) EXCEPT
                  !.activeTile = Null,
                  !.audio = stopTone(@),
                  !.lastErrorLevel = st.level,
                  !.status = IF st.strictMode THEN "Missed! Restarting..."
                             ELSE "Missed! Try again"]
    IN  IF st.strictMode
        THEN [s1 EXCEPT !.timers = Append(@, Timer("restart", MismatchPause,
                                                   <<>>, 0, FALSE, TRUE))]
        ELSE [s1 EXCEPT !.playerIndex = @ - 1,
                        !.timers = Append(@, Timer("play", MismatchPause,
                                                   st.sequence, 0,
                                                   FALSE, TRUE))]

\* inputMismatch with a fault: setLastErrorLevel(playerIndex)
inputMismatchIndex(st) ==
    LET s1 == [clearRelease(st) EXCEPT
                  !.activeTile = Null,
                  !.audio = stopTone(@),
                  !.lastErrorLevel = st.playerIndex,
                  !.status = IF st.strictMode THEN "Missed! Restarting..."
                             ELSE "Missed! Try again"]
    IN  IF st.strictMode
        THEN [s1 EXCEPT !.timers = Append(@, Timer("restart", MismatchPause,
                                                   <<>>, 0, FALSE, TRUE))]
        ELSE [s1 EXCEPT !.playerIndex = 0,
                        !.timers = Append(@, Timer("play", MismatchPause,
                                                   st.sequence, 0,
                                                   FALSE, TRUE))]

\* inputMismatch with a fault: the strict branch is taken whatever the mode
inputMismatchAlwaysStrict(st) ==
    [clearRelease(st) EXCEPT
        !.activeTile = Null,
        !.audio = stopTone(@),
        !.lastErrorLevel = st.level,
        !.status = IF st.strictMode THEN "Missed! Restarting..."
                   ELSE "Missed! Try again",
        !.timers = Append(@, Timer("restart", MismatchPause, <<>>, 0,
                                   FALSE, TRUE))]

inputMismatch(st) ==
    LET s1 == [clearRelease(st) EXCEPT
                  !.activeTile = Null,
                  !.audio = stopTone(@),
                  !.lastErrorLevel = st.level,
                  !.status = IF st.strictMode THEN "Missed! Restarting..."
                             ELSE "Missed! Try again"]
    IN  IF st.strictMode
        THEN [s1 EXCEPT !.timers = Append(@, Timer("restart", MismatchPause,
                                                   <<>>, 0, FALSE, TRUE))]
        ELSE [s1 EXCEPT !.playerIndex = 0,
                        !.timers = Append(@, Timer("play", MismatchPause,
                                                   st.sequence, 0,
                                                   FALSE, TRUE))]

\* "ignored" | "complete" | "advance" | "mismatch": the branch a press takes
inputBranch(st, tile) ==
    IF inputIgnored(st) THEN "ignored"
    ELSE IF expectedTile(st) = tile
         THEN IF st.playerIndex + 1 = Len(st.sequence) THEN "complete"
              ELSE "advance"
         ELSE "mismatch"

handlePlayerInput(st, tile, rnd) ==
    LET b == inputBranch(st, tile)
        s1 == inputFeedback(st, tile)
    IN  CASE b = "ignored" -> st
          [] b = "complete" -> inputRoundComplete(s1, rnd)
          [] b = "advance" -> inputAdvance(s1)
          [] OTHER -> inputMismatch(s1)

\* toggleStrictMode with a fault: the toggle also resets the game state
toggleStrictModeResets(st) == resetGameState([st EXCEPT !.strictMode = ~@])

\* onClick={() => setStrictMode((prev) => !prev)}
toggleStrictMode(st) == [st EXCEPT !.strictMode = ~@]

(* ------------------------------- actions ------------------------------- *)

Init ==
    /\ sequence = <<>>
    /\ level = 0
    /\ bestLevel = 0
    /\ playerIndex = 0
    /\ isPlayingSequence = FALSE
    /\ activeTile = Null
    /\ status = "Tap play to begin"
    /\ strictMode = TRUE
    /\ hasInteracted = FALSE
    /\ lastErrorLevel = Null
    /\ audio \in {[available |-> av, ctx |-> FALSE, oscillators |-> 0,
                   sounding |-> FALSE] : av \in BOOLEAN}
    /\ timers = <<>>
    /\ events = 0
    /\ accuracy = Null

\* the Play / Restart button
StartGame ==
    /\ events < MaxEvents
    /\ \E tile \in randomTile : Commit(startGame(State, tile))
    /\ events' = events + 1

\* a tile button (or a press React drops because the handler returns at once)
Press(tile, rnd) ==
    /\ inputBranch(State, tile) # "ignored" => events < MaxEvents
    /\ Commit(handlePlayerInput(State, tile, rnd))
    /\ events' = IF inputBranch(State, tile) = "ignored" THEN events
                 ELSE events + 1

PressTile == \E tile \in Tiles, rnd \in randomTile : Press(tile, rnd)

\* the Strict Mode button
ToggleStrict ==
    /\ Commit(toggleStrictMode(State))
    /\ UNCHANGED events

\* the timer the browser runs next: due now, oldest first
Due(i) ==
    /\ i \in DOMAIN timers
    /\ timers[i].rem = 0
    /\ \A j \in 1 .. (i - 1) : timers[j].rem # 0

WithoutTimer(i) == [State EXCEPT !.timers = RemoveAt(@, i)]

FirePlayAt(i) ==
    /\ Due(i) /\ timers[i].kind = "play"
    /\ Commit(playSequence(WithoutTimer(i), timers[i].steps))
    /\ UNCHANGED events

FirePlay == \E i \in DOMAIN timers : FirePlayAt(i)

FireRestart ==
    /\ UNCHANGED events
    /\ \E i \in DOMAIN timers :
        /\ Due(i) /\ timers[i].kind = "restart"
        /\ \E tile \in randomTile : Commit(startGame(WithoutTimer(i), tile))

FireInputRelease ==
    /\ UNCHANGED events
    /\ \E i \in DOMAIN timers :
        /\ Due(i) /\ timers[i].kind = "inputRelease"
        /\ Commit([WithoutTimer(i) EXCEPT !.activeTile = Null,
                                          !.audio = stopTone(@)])

FireFlashRelease ==
    /\ UNCHANGED events
    /\ \E i \in DOMAIN timers :
        /\ Due(i) /\ timers[i].kind = "flashRelease"
        /\ Commit(flashRelease(State, i))

FireSettle ==
    /\ UNCHANGED events
    /\ \E i \in DOMAIN timers :
        /\ Due(i) /\ timers[i].kind = "settle"
        /\ Commit(IF timers[i].live
                  THEN playSequenceResume(WithoutTimer(i), timers[i].steps,
                                          timers[i].idx)
                  ELSE WithoutTimer(i))

MinRem == CHOOSE m \in {timers[k].rem : k \in DOMAIN timers} :
              \A k \in DOMAIN timers : m <= timers[k].rem

\* time passes, up to the next deadline or by the quantum if that is sooner
Advance ==
    /\ timers # <<>>
    /\ MinRem > 0
    /\ \E d \in {MinRem, Min(QuantumTenths * 100, MinRem)} :
          timers' = [k \in DOMAIN timers |->
                        [timers[k] EXCEPT !.rem = @ - d]]
    /\ UNCHANGED <<sequence, level, bestLevel, playerIndex, isPlayingSequence,
                   activeTile, status, strictMode, hasInteracted,
                   lastErrorLevel, audio, events, accuracy>>

Next ==
    \/ StartGame
    \/ PressTile
    \/ ToggleStrict
    \/ FirePlay
    \/ FireRestart
    \/ FireInputRelease
    \/ FireFlashRelease
    \/ FireSettle
    \/ Advance

Spec == Init /\ [][Next]_vars

\* the browser's event loop: a timer that is due runs, and time passes
TimerStep ==
    \/ FirePlay
    \/ FireRestart
    \/ FireInputRelease
    \/ FireFlashRelease
    \/ FireSettle
    \/ Advance

\* the user may stop acting at any time; the event loop never stops
FairSpec == Spec /\ WF_vars(TimerStep)

\* a game n rounds in, waiting for the player's first press of the round, after
\* at most one mismatch (at round e), with one user event still to come
FnInit ==
    \E n \in 1 .. MaxFnLevel :
        /\ sequence = [i \in 1 .. n |-> 0]
        /\ level = n
        /\ bestLevel = n
        /\ playerIndex = 0
        /\ isPlayingSequence = FALSE
        /\ activeTile = Null
        /\ status = "Your turn"
        /\ strictMode \in BOOLEAN
        /\ hasInteracted = TRUE
        /\ lastErrorLevel \in {Null} \cup (1 .. n)
        /\ audio = [available |-> TRUE, ctx |-> TRUE, oscillators |-> MaxOsc,
                    sounding |-> FALSE]
        /\ timers = <<>>
        /\ events = MaxEvents - 1
        /\ accuracy = accuracyMemo(level, lastErrorLevel)

FnSpec == FnInit /\ [][Next]_vars

(* ------------------------------- claims -------------------------------- *)

\* a tile press is accepted: the game is started and no playback is flagged
Accepted == Len(sequence) > 0 /\ ~isPlayingSequence

\* the press of `tile` equals sequence[playerIndex]
Matches(tile) == playerIndex < Len(sequence) /\ sequence[playerIndex + 1] = tile

\* a startGame call: the button, or the 900 ms timer of a strict mismatch
StartGameStep == StartGame \/ FireRestart

\* scheduled work of the game: playback timers, restart timers, and flashes
\* whose promise a playback pass still awaits
GameWork(ts) ==
    Cardinality({k \in DOMAIN ts :
                    \/ ts[k].kind \in {"play", "restart", "flashRelease"}
                    \/ ts[k].kind = "settle" /\ ts[k].live})

\* C1: after startGame nothing of the earlier game is left to fire: the only
\* scheduled work is the 450 ms start timer of the new game, no tile of an
\* old pass is lit, and no old pass has written the status.
C1_RestartCancels ==
    [][StartGameStep =>
          /\ GameWork(timers') = 1
          /\ activeTile' = Null
          /\ status' = "Memorize the pattern"]_vars

\* C2: while isPlayingSequence is true or the sequence is empty, a press of
\* any tile leaves the whole state (timers and audio included) unchanged.
C2_InputIgnored ==
    (isPlayingSequence \/ Len(sequence) = 0) =>
        \A tile \in Tiles, rnd \in randomTile :
            handlePlayerInput(State, tile, rnd) = State

\* C2 witness: a playback flash is lit, so presses are being ignored
C2_Witness ==
    /\ isPlayingSequence
    /\ Len(sequence) = 2
    /\ activeTile # Null
    /\ \E k \in DOMAIN timers : timers[k].kind = "flashRelease"

\* C3: an accepted press that matches the last tile of the sequence appends
\* exactly one tile of {0,1,2,3}, sets level to the new length and bestLevel
\* to max(bestLevel, new length), and schedules exactly one playback of the
\* new sequence after 700 ms, leaving every other timer as it was.
C3_RoundComplete ==
    [][\A tile \in Tiles :
         (/\ Accepted /\ Matches(tile) /\ playerIndex + 1 = Len(sequence)
          /\ \E rnd \in randomTile : Press(tile, rnd))
         => /\ \E t \in Tiles : sequence' = Append(sequence, t)
            /\ level' = Len(sequence) + 1
            /\ bestLevel' = Max(bestLevel, Len(sequence) + 1)
            /\ timers' = Append(timers, Timer("play", NextPause, sequence', 0,
                                              FALSE, TRUE))]_vars

\* C3 witness: a round has just been completed, the playback is scheduled
C3_Witness ==
    /\ status = "Great! Next round"
    /\ Len(sequence) = 2
    /\ \E k \in DOMAIN timers :
          timers[k] = Timer("play", NextPause, sequence, 0, FALSE, TRUE)

\* C4: a strict-mode mismatch at level L sets lastErrorLevel to L and resets
\* the game at the mismatch (sequence empty, level 0).
C4_StrictMismatchResets ==
    [][\A tile \in Tiles :
         (/\ Accepted /\ ~Matches(tile) /\ strictMode
          /\ \E rnd \in randomTile : Press(tile, rnd))
         => /\ lastErrorLevel' = level
            /\ sequence' = <<>>
            /\ level' = 0]_vars

\* C5: a non-strict mismatch at level L sets lastErrorLevel to L and
\* playerIndex to 0, keeps sequence, level and bestLevel, and schedules a
\* playback of the same sequence after 900 ms; the playback that a timer
\* starts flashes the steps the timer was scheduled with, from the first.
C5_ReplayMismatch ==
    [][/\ \A tile \in Tiles :
            (/\ Accepted /\ ~Matches(tile) /\ ~strictMode
             /\ \E rnd \in randomTile : Press(tile, rnd))
            => /\ lastErrorLevel' = level
               /\ playerIndex' = 0
               /\ sequence' = sequence
               /\ level' = level
               /\ bestLevel' = bestLevel
               /\ timers' = Append(timers, Timer("play", MismatchPause,
                                                 sequence, 0, FALSE, TRUE))
       /\ \A i \in DOMAIN timers :
            FirePlayAt(i)
            => /\ isPlayingSequence'
               /\ activeTile' = timers[i].steps[1]
               /\ timers'[Len(timers')].kind = "flashRelease"
               /\ timers'[Len(timers')].steps = timers[i].steps
               /\ timers'[Len(timers')].idx = 1]_vars

\* C5 witness: a non-strict mismatch has just happened, the replay is scheduled
C5_Witness ==
    /\ status = "Missed! Try again"
    /\ lastErrorLevel = level
    /\ \E k \in DOMAIN timers :
          timers[k] = Timer("play", MismatchPause, sequence, 0, FALSE, TRUE)

\* C6: right after startGame the sequence is one tile of {0,1,2,3}, level is
\* 1, playerIndex is 0, lastErrorLevel is none and bestLevel is
\* max(previous bestLevel, 1).
C6_StartGamePost ==
    [][StartGameStep =>
          /\ Len(sequence') = 1
          /\ sequence'[1] \in Tiles
          /\ level' = 1
          /\ playerIndex' = 0
          /\ lastErrorLevel' = Null
          /\ bestLevel' = Max(bestLevel, 1)
          /\ bestLevel' >= 1]_vars

\* C6 witness: a restart during the playback of a two-tile sequence
C6_Witness ==
    /\ status = "Memorize the pattern"
    /\ Len(sequence) = 1
    /\ level = 1
    /\ bestLevel = 2
    /\ \E k \in DOMAIN timers :
          timers[k].kind = "flashRelease" /\ Len(timers[k].steps) = 2

\* C7: whenever the sequence is non-empty, level equals its length.
C7_LevelIsLength == Len(sequence) > 0 => level = Len(sequence)

\* C7 witness: the sequence has been extended
C7_Witness ==
    /\ status = "Great! Next round"
    /\ Len(sequence) = 2
    /\ level = 2

\* C8: bestLevel is at least level in every state and never decreases.
C8_BestLevel ==
    /\ [](bestLevel >= level)
    /\ [][bestLevel' >= bestLevel]_vars

\* C8 witness: a restart has kept the best level of the earlier game
C8_Witness ==
    /\ bestLevel = 2
    /\ level = 1
    /\ Len(sequence) = 1

\* C9: the strict-mode toggle changes strictMode only (pending timers
\* included), and a mismatch schedules what the mode at the press says.
C9_ToggleFrame ==
    [][/\ ToggleStrict
          => /\ strictMode' = ~strictMode
             /\ UNCHANGED <<sequence, level, bestLevel, playerIndex,
                            isPlayingSequence, activeTile, lastErrorLevel,
                            status, audio, timers>>
       /\ \A tile \in Tiles :
            (/\ Accepted /\ ~Matches(tile)
             /\ \E rnd \in randomTile : Press(tile, rnd))
            => /\ SubSeq(timers', 1, Len(timers)) = timers
               /\ Len(timers') = Len(timers) + 1
               /\ timers'[Len(timers')].kind =
                      IF strictMode THEN "restart" ELSE "play"]_vars

\* C9 witness: strict mode was switched off in mid-game, timers pending
C9_Witness ==
    /\ ~strictMode
    /\ Len(sequence) = 2
    /\ isPlayingSequence
    /\ timers # <<>>

\* C10: at most one started oscillator is connected to the gain node.
C10_OneTone == audio.oscillators <= 1

\* an accepted press of a tile that differs from sequence[playerIndex]
MismatchPress(tile) ==
    /\ Accepted /\ ~Matches(tile)
    /\ \E rnd \in randomTile : Press(tile, rnd)

C12_ActiveTileOnlyInFlash ==
    activeTile # Null =>
        \E k \in DOMAIN timers :
            \/ timers[k].kind = "inputRelease"
            \/ /\ timers[k].kind = "flashRelease"
               /\ timers[k].steps[timers[k].idx] = activeTile

\* a flash of a tile after the first of its pass that starts in this step
StartsLaterFlash(f) ==
    /\ f.kind = "flashRelease"
    /\ f.idx > 1
    /\ f.rem = holdTime(getTempo(Len(f.steps)))
    /\ \A k \in DOMAIN timers : timers[k] # f

\* C13: tile i + 1 of a pass is lit only when the settle gap of tile i of the
\* same pass has elapsed, with tile i cleared; and the pass whose last settle
\* gap elapses sets playerIndex to 0, isPlayingSequence to false and
\* activeTile to null.
C13_FlashesInOrder ==
    [][/\ \A k \in DOMAIN timers' :
            StartsLaterFlash(timers'[k])
            => \E i \in DOMAIN timers :
                  /\ Due(i)
                  /\ timers[i].kind = "settle" /\ timers[i].live
                  /\ timers[i].steps = timers'[k].steps
                  /\ timers[i].idx + 1 = timers'[k].idx
       /\ (FireSettle /\ \E i \in DOMAIN timers :
                            /\ Due(i) /\ timers[i].live
                            /\ timers[i].idx = Len(timers[i].steps))
            => /\ playerIndex' = 0
               /\ ~isPlayingSequence'
               /\ activeTile' = Null]_vars

\* C14: an accepted press that matches a tile before the last moves
\* playerIndex on by one, keeps isPlayingSequence false, keeps sequence,
\* level, bestLevel and lastErrorLevel, and schedules nothing but its own
\* 200 ms release timer.
C14_MatchAdvances ==
    [][\A tile \in Tiles :
         (/\ Accepted /\ Matches(tile) /\ playerIndex + 1 < Len(sequence)
          /\ \E rnd \in randomTile : Press(tile, rnd))
         => /\ playerIndex' = playerIndex + 1
            /\ ~isPlayingSequence'
            /\ UNCHANGED <<sequence, level, bestLevel, lastErrorLevel>>
            /\ timers' = Append(timers, Timer("inputRelease", InputHold, <<>>,
                                              0, FALSE, TRUE))]_vars

\* C14 witness: the first tile of a two-tile sequence has been repeated
C14_Witness ==
    /\ status = "Good! 1 to go"
    /\ playerIndex = 1
    /\ Len(sequence) = 2
    /\ ~isPlayingSequence

\* C15 as stated: lastErrorLevel starts as none and changes only in a
\* mismatch, which sets it to the level of the mismatch.
C15_OnlyMismatchChanges ==
    /\ lastErrorLevel = Null
    /\ [][/\ \A tile \in Tiles : MismatchPress(tile) => lastErrorLevel' = level
          /\ lastErrorLevel' # lastErrorLevel
               => \E tile \in Tiles : MismatchPress(tile)]_vars

\* C15 amended: lastErrorLevel starts as none; a mismatch sets it to the
\* level of the mismatch, startGame sets it to none, and no other step
\* changes it.
C15_MismatchOrStartGame ==
    /\ lastErrorLevel = Null
    /\ [][/\ \A tile \in Tiles : MismatchPress(tile) => lastErrorLevel' = level
          /\ StartGameStep => lastErrorLevel' = Null
          /\ lastErrorLevel' # lastErrorLevel
               => \/ \E tile \in Tiles : MismatchPress(tile)
                  \/ StartGameStep]_vars

\* C15 witness: the level of a mismatch at level 1 is still recorded after
\* the next round has been completed
C15_Witness ==
    /\ lastErrorLevel = 1
    /\ level = 2
    /\ status = "Great! Next round"

\* n / d rounded to the nearest integer, halves upwards, stated without division
IsRounded(a, n, d) == 2 * a * d <= 2 * n + d /\ 2 * n + d < 2 * (a + 1) * d

\* C16: the recovery metric is absent whenever lastErrorLevel is none, and
\* when present it is an integer in [0,100] equal to
\* min(100, round((level - 1) / max(lastErrorLevel, 1) * 100)).
C16_AccuracyValue ==
    /\ lastErrorLevel = Null => accuracy = Null
    /\ accuracy # Null =>
          /\ accuracy \in 0 .. 100
          /\ \E r \in 0 .. (100 * level) :
                /\ IsRounded(r, (level - 1) * 100,
                             IF lastErrorLevel > 1 THEN lastErrorLevel ELSE 1)
                /\ accuracy = (IF r < 100 THEN r ELSE 100)

\* a mismatch at round 8 has just set the metric to round(87.5) = 88
C16_Witness ==
    /\ status = "Missed! Try again"
    /\ level = 8
    /\ lastErrorLevel = 8
    /\ accuracy = 88

\* C17: for every round n >= 1 the tempo does not grow with n and lies in
\* [260, 680], and every hold timer a playback pass starts is at least 180 ms
\* and every settle gap at least 80 ms.
C17_TempoBounds ==
    [][/\ level >= 1 =>
             /\ getTempo(level + 1) <= getTempo(level)
             /\ getTempo(level) >= 260
             /\ getTempo(level) <= 680
       /\ (FirePlay \/ (FireSettle /\ Len(timers') = Len(timers))) =>
             /\ timers'[Len(timers')].kind = "flashRelease"
             /\ timers'[Len(timers')].rem >= 180
       /\ FireFlashRelease =>
             /\ timers'[Len(timers')].kind = "settle"
             /\ timers'[Len(timers')].rem >= 80]_vars

\* a pass at the floor tempo (round 11 or later) waits in an 80 ms settle gap
C17_Witness ==
    \E k \in DOMAIN timers :
        /\ timers[k].kind = "settle"
        /\ timers[k].live
        /\ timers[k].rem = 80
        /\ Len(timers[k].steps) >= 11
        /\ getTempo(Len(timers[k].steps)) = 260

\* the playback passes in progress: each one awaits the flash whose hold or
\* settle timer is pending
Passes(ts) ==
    {k \in DOMAIN ts : \/ ts[k].kind = "flashRelease"
                       \/ ts[k].kind = "settle" /\ ts[k].live}

\* the pass waiting on timer t has its tile lit, or tiles left to flash
Flashing(t) == t.kind = "flashRelease" \/ t.idx < Len(t.steps)

\* C18: at most one playback pass is in progress, and isPlayingSequence is
\* true whenever some pass has a flash lit or tiles left to flash.
C18_OnePassFlagged ==
    /\ Cardinality(Passes(timers)) <= 1
    /\ (\E k \in Passes(timers) : Flashing(timers[k])) => isPlayingSequence

\* the timer of a pause is pending: the 450 ms start pause, the 700 ms pause
\* after a round, or the 900 ms pause after a mismatch
InPause == \E k \in DOMAIN timers : timers[k].kind \in {"play", "restart"}

\* C19: no press is compared against the sequence while the pause before a
\* playback (after startGame, a completed round or a mismatch) is running.
C19_NoPressInPause ==
    [][\A tile \in Tiles, rnd \in randomTile :
          (Press(tile, rnd) /\ inputBranch(State, tile) # "ignored")
              => ~InPause]_vars

\* startGame has just run and the user acts no more: the 450 ms start timer
\* of the new one-tile sequence is the newest timer, untouched
AfterLastStartGame ==
    /\ events = MaxEvents
    /\ Len(sequence) = 1
    /\ timers # <<>>
    /\ timers[Len(timers)] = Timer("play", StartPause, sequence, 0, FALSE, TRUE)

\* the game awaits input and nothing is scheduled
Quiescent ==
    /\ timers = <<>>
    /\ ~isPlayingSequence
    /\ activeTile = Null
    /\ playerIndex = 0
    /\ Len(sequence) > 0

====
